---- MODULE Spec2Model ----
(***************************************************************************)
(* Model of jtmmcv/ops/nms.py: NMSop.execute, nms and batched_nms.         *)
(*                                                                         *)
(* Numbers.  Box coordinates are integers.  Scores and score_threshold are *)
(* integers (a score s stands for s tenths).  An IoU threshold is an exact *)
(* rational [num, den] with den > 0, so that "iou > threshold" is decided  *)
(* by cross-multiplication and never rounded.                              *)
(*                                                                         *)
(* Indices.  The program's indices are 0-based; TLA+ sequences are 1-based.*)
(* Every index VALUE of the model (inds, keep, order, mask, valid_inds) is *)
(* the program's 0-based index; At(s, i) reads position i of s.            *)
(*                                                                         *)
(* Sorting.  Descending sorts keep equal scores in input order.  Arithmetic*)
(* on coordinates is exact: the rounding of float32 is not modelled.       *)
(*                                                                         *)
(* Empty arrays.  The suppression primitive on zero rows returns no index; *)
(* batched_nms is called on at least one box, since boxes.max() of an      *)
(* empty array is the array library's matter.                              *)
(***************************************************************************)
EXTENDS Integers, Sequences, FiniteSets, TLC

VARIABLES
    pc,               \* "input" | "nms" | "batched_nms": which call has returned
    boxes,            \* argument boxes: sequence of <<x1, y1, x2, y2>>
    scores,           \* argument scores: sequence of integers, same length
    iou_threshold,    \* nms argument
    offset,           \* nms argument
    score_threshold,  \* nms argument
    max_num,          \* nms argument
    idxs,             \* batched_nms argument: group id per box
    nms_cfg,          \* batched_nms argument: dictionary (function on present keys)
    class_agnostic,   \* batched_nms argument (the explicit parameter)
    dets,             \* returned dets: sequence of <<x1, y1, x2, y2, score>>
    inds              \* returned indices (0-based)

vars == <<pc, boxes, scores, iou_threshold, offset, score_threshold, max_num,
          idxs, nms_cfg, class_agnostic, dets, inds>>

----------------------------------------------------------------------------
(* Bounds of the model *)

\* largest number of boxes handed to nms
MaxN == 3
\* largest number of boxes handed to batched_nms
MaxNB == 2

\* boxes the inputs are drawn from: two that overlap strongly, and one with
\* negative coordinates that touches the first at a corner and misses the second
BoxPool == { <<0, 0, 3, 1>>, <<1, 0, 4, 1>>, <<-3, -3, 0, 0>> }
ScorePool == {0, 1, 2}
GroupPool == {0, 1}

Thr(n, d) == [num |-> n, den |-> d]
IouThresholds == { Thr(1, 2), Thr(1, 1) }
Offsets == {0, 1}
ScoreThresholds == {0, 1}
MaxNums == {-1, 2}

\* nms_cfg dictionaries: every subset of split_thr, max_num and class_agnostic
\* (iou_thr then takes its default, 0), and iou_thr = 1/2 on either path
CfgEntry(k, c) == CASE k = "iou_thr" -> Thr(1, 2)
                    [] k = "split_thr" -> 2
                    [] k = "max_num" -> 1
                    [] k = "class_agnostic" -> c
CfgPool ==
    { [k \in D |-> CfgEntry(k, c)] :
        D \in SUBSET {"split_thr", "max_num", "class_agnostic"}, c \in BOOLEAN }
    \cup { [k \in D |-> CfgEntry(k, FALSE)] :
             D \in { {"iou_thr"}, {"iou_thr", "split_thr"} } }

----------------------------------------------------------------------------
(* Array helpers (0-based index values over 1-based sequences) *)

At(s, i) == s[i + 1]

\* s[idx]: gather the entries of s at the index sequence idx
Gather(s, idx) == [k \in 1..Len(idx) |-> At(s, idx[k])]

\* s[:n] for n > 0
Take(s, n) == IF n >= Len(s) THEN s ELSE SubSeq(s, 1, n)

Range(s) == { s[k] : k \in 1..Len(s) }

Max2(a, b) == IF a >= b THEN a ELSE b
Min2(a, b) == IF a <= b THEN a ELSE b

\* nonzero(mask): the positions where mask holds, ascending
RECURSIVE NonzeroFrom(_, _)
NonzeroFrom(mask, i) ==
    IF i >= Len(mask) THEN <<>>
    ELSE IF At(mask, i) THEN <<i>> \o NonzeroFrom(mask, i + 1)
         ELSE NonzeroFrom(mask, i + 1)

Nonzero(mask) == NonzeroFrom(mask, 0)

\* mutant of ArgsortDesc: each sorted value is looked up by value, so equal
\* values all report the position of the first of them
ArgsortByValueLookup(s) ==
    LET Rank(i) == Cardinality({ j \in 1..Len(s) :
                        s[j] > s[i] \/ (s[j] = s[i] /\ j < i) })
        Val(r)  == s[CHOOSE i \in 1..Len(s) : Rank(i) = r - 1]
    IN  [r \in 1..Len(s) |->
            (CHOOSE i \in 1..Len(s) :
                s[i] = Val(r) /\ \A j \in 1..(i - 1) : s[j] # Val(r)) - 1]

\* argsort / sort(descending=True): positions by descending value; equal values
\* keep their input order (the library sorts short arrays by insertion)
ArgsortDesc(s) ==
    LET Rank(i) == Cardinality({ j \in 1..Len(s) :
                        s[j] > s[i] \/ (s[j] = s[i] /\ j < i) })
    IN  [r \in 1..Len(s) |-> (CHOOSE i \in 1..Len(s) : Rank(i) = r - 1) - 1]

----------------------------------------------------------------------------
(* jittor.nms(dets, thresh), the suppression primitive NMSop.execute calls. *)
(* Its body is the array library's: argsort by descending score, then a    *)
(* candidate filter that keeps row i unless fail_cond(i, j) holds for a    *)
(* row j already kept.  It is handed the rows and the threshold only.      *)

\* the primitive's overlap test of candidate i against selected j:
\* width and height are pixel-inclusive (x2 - x1 + 1), whatever nms's offset
FailCond(bi, bj, thr) ==
    LET area_j  == (bj[3] - bj[1] + 1) * (bj[4] - bj[2] + 1)
        area_i  == (bi[3] - bi[1] + 1) * (bi[4] - bi[2] + 1)
        inter_w == Max2(0, Min2(bj[3], bi[3]) - Max2(bj[1], bi[1]) + 1)
        inter_h == Max2(0, Min2(bj[4], bi[4]) - Max2(bj[2], bi[2]) + 1)
        inter   == inter_h * inter_w
        union   == area_j + area_i - inter
    IN  inter * thr.den > thr.num * union

\* the primitive's selection loop over the score-sorted rows x
RECURSIVE Candidate(_, _, _, _)
Candidate(x, thr, i, y) ==
    IF i >= Len(x) THEN y
    ELSE LET pass == \A k \in 1..Len(y) : ~FailCond(At(x, i), At(x, y[k]), thr)
         IN  Candidate(x, thr, i + 1, IF pass THEN Append(y, i) ELSE y)

\* order[selected], for selected the candidates among the rows sorted by order
Selected(rows, order, thr) == Gather(order, Candidate(Gather(rows, order), thr, 0, <<>>))

JittorNms(rows, thr) ==
    Selected(rows, ArgsortDesc([k \in 1..Len(rows) |-> rows[k][5]]), thr)

----------------------------------------------------------------------------
(* NMSop.execute and nms *)

\* concat([bboxes, scores], dim=1)
Concat(b, s) == [k \in 1..Len(b) |-> <<b[k][1], b[k][2], b[k][3], b[k][4], s[k]>>]

\* mutant of valid_mask: a box whose score equals the threshold passes the filter
ValidMaskInclusive(s, sthr) == [k \in 1..Len(s) |-> s[k] >= sthr]

\* valid_mask = scores > score_threshold
valid_mask(s, sthr) == [k \in 1..Len(s) |-> s[k] > sthr]

\* s[mask]: boolean-mask indexing
Select(s, mask) == Gather(s, Nonzero(mask))

\* valid_inds = nonzero(valid_mask).squeeze(dim=1)
valid_inds(vm) == Nonzero(vm)

\* mutant of Truncate: one entry too many survives
TruncateOneMore(s, mx) == IF mx > 0 THEN Take(s, mx + 1) ELSE s

\* if max_num > 0: s = s[:max_num]
Truncate(s, mx) == IF mx > 0 THEN Take(s, mx) ELSE s

\* lines 20-29 of NMSop.execute, on the (possibly filtered) bboxes and scores
Suppress(b1, s1, iou_thr, mx) == Truncate(JittorNms(Concat(b1, s1), iou_thr), mx)

\* offset is received and never read
NMSopExecute(bboxes, scs, iou_thr, off, sthr, mx) ==
    IF sthr > 0
    THEN Gather(valid_inds(valid_mask(scs, sthr)),
                Suppress(Select(bboxes, valid_mask(scs, sthr)),
                         Select(scs, valid_mask(scs, sthr)), iou_thr, mx))
    ELSE Suppress(bboxes, scs, iou_thr, mx)

\* dets = cat((boxes[inds], scores[inds].reshape(-1, 1)), dim=1); return dets, inds
NmsReturn(b, s, keep) ==
    [dets |-> Concat(Gather(b, keep), Gather(s, keep)), inds |-> keep]

nms(b, s, iou_thr, off, sthr, mx) ==
    NmsReturn(b, s, NMSopExecute(b, s, iou_thr, off, sthr, mx))

----------------------------------------------------------------------------
(* batched_nms *)

\* defaults of nms's signature, used when batched_nms calls nms(b, s, iou_thr)
NmsDefaultOffset == 0
NmsDefaultScoreThreshold == 0
NmsDefaultMaxNum == -1
\* defaults of the nms_cfg entries
DefaultIouThr == Thr(0, 1)
DefaultSplitThr == 10000
DefaultMaxNum == -1

\* dict.pop(key, default) on the copy of nms_cfg: the entry when present
Pop(cfg, key, default) == IF key \in DOMAIN cfg THEN cfg[key] ELSE default

\* mutant of ClassAgnosticOf: the explicit parameter wins over the config entry
ClassAgnosticArgFirst(cfg, ca) == ca

\* the mode batched_nms runs in
ClassAgnosticOf(cfg, ca) == Pop(cfg, "class_agnostic", ca)

\* boxes.max(): the largest coordinate of any box (boxes non-empty)
max_coordinate(b) ==
    LET cs == { b[k][c] : k \in 1..Len(b), c \in 1..4 }
    IN  CHOOSE m \in cs : \A c \in cs : m >= c

\* the boxes suppression runs on: raw, or displaced by idxs * (max_coordinate + 1)
boxes_for_nms(b, ids, ca) ==
    IF ca THEN b
    ELSE LET offsets == [k \in 1..Len(b) |-> ids[k] * (max_coordinate(b) + 1)]
         IN  [k \in 1..Len(b) |-> <<b[k][1] + offsets[k], b[k][2] + offsets[k],
                                    b[k][3] + offsets[k], b[k][4] + offsets[k]>>]

\* jittor.unique(idxs): the distinct ids, ascending
RECURSIVE SortedSeq(_)
SortedSeq(S) ==
    IF S = {} THEN <<>>
    ELSE LET m == CHOOSE x \in S : \A y \in S : x <= y
         IN  <<m>> \o SortedSeq(S \ {m})

Unique(ids) == SortedSeq(Range(ids))

\* total_mask[tgt] = True and scores_after_nms[tgt] = vals, for the global
\* indices tgt = mask[keep] and vals = dets[:, -1]
Scatter(acc, tgt, rows) ==
    [total_mask |->
        [k \in 1..Len(acc.total_mask) |->
            IF k - 1 \in Range(tgt) THEN TRUE ELSE acc.total_mask[k]],
     scores_after_nms |->
        [k \in 1..Len(acc.total_mask) |->
            IF k - 1 \in Range(tgt)
            THEN rows[CHOOSE j \in 1..Len(tgt) : tgt[j] = k - 1][5]
            ELSE acc.scores_after_nms[k]]]

\* the two assignments of the loop body, given mask and nms's result r
GroupAssign(acc, mask, r) == Scatter(acc, Gather(mask, r.inds), r.dets)

\* dets, keep = nms(boxes_for_nms[mask], scores[mask], iou_thr), then the assignments
GroupNms(acc, mask, bfn, s, iou_thr) ==
    GroupAssign(acc, mask,
                nms(Gather(bfn, mask), Gather(s, mask), iou_thr,
                    NmsDefaultOffset, NmsDefaultScoreThreshold, NmsDefaultMaxNum))

\* one iteration of the per-group loop: mask = (idxs == id).nonzero().view(-1)
GroupStep(acc, id, bfn, s, ids, iou_thr) ==
    GroupNms(acc, Nonzero([k \in 1..Len(ids) |-> ids[k] = id]), bfn, s, iou_thr)

RECURSIVE GroupLoop(_, _, _, _, _, _)
GroupLoop(acc, todo, bfn, s, ids, iou_thr) ==
    IF todo = <<>> THEN acc
    ELSE GroupLoop(GroupStep(acc, Head(todo), bfn, s, ids, iou_thr),
                   Tail(todo), bfn, s, ids, iou_thr)

\* scores = dets[:, 4]; return concat([boxes[keep], scores[:, None]], -1), keep
SmallReturn(b, r) ==
    [dets |-> Concat(Gather(b, r.inds), [k \in 1..Len(r.dets) |-> r.dets[k][5]]),
     inds |-> r.inds]

\* the branch taken when boxes_for_nms.shape[0] < split_thr
SmallPath(b, s, bfn, iou_thr) ==
    SmallReturn(b, nms(bfn, s, iou_thr,
                       NmsDefaultOffset, NmsDefaultScoreThreshold, NmsDefaultMaxNum))

\* total_mask and scores_after_nms as allocated: zeros of the size of scores
Zeros(s) == [total_mask |-> [k \in 1..Len(s) |-> FALSE],
             scores_after_nms |-> [k \in 1..Len(s) |-> 0]]

\* the truncation of keep, boxes and scores, and the return
LargeReturn(b1, sc1, keep1, mx) ==
    [dets |-> Concat(Truncate(b1, mx), Truncate(sc1, mx)), inds |-> Truncate(keep1, mx)]

\* keep = keep[inds]; boxes = boxes[keep], for inds the descending sort of vals
Reorder(b, keep0, vals, srt, mx) ==
    LargeReturn(Gather(b, Gather(keep0, srt)), Gather(vals, srt), Gather(keep0, srt), mx)

\* scores, inds = scores_after_nms[keep].sort(descending=True)
SortKept(b, keep0, vals, mx) == Reorder(b, keep0, vals, ArgsortDesc(vals), mx)

\* keep = total_mask.nonzero().view(-1), then the sort
Merge(b, keep0, acc, mx) == SortKept(b, keep0, Gather(acc.scores_after_nms, keep0), mx)

\* what follows the per-group loop
AfterLoop(b, acc, mx) == Merge(b, Nonzero(acc.total_mask), acc, mx)

\* the branch taken otherwise
LargePath(b, s, ids, bfn, iou_thr, mx) ==
    AfterLoop(b, GroupLoop(Zeros(s), Unique(ids), bfn, s, ids, iou_thr), mx)

\* the choice of the branch, given boxes_for_nms
Branch(b, s, ids, cfg, bfn) ==
    IF Len(bfn) < Pop(cfg, "split_thr", DefaultSplitThr)
    THEN SmallPath(b, s, bfn, Pop(cfg, "iou_thr", DefaultIouThr))
    ELSE LargePath(b, s, ids, bfn, Pop(cfg, "iou_thr", DefaultIouThr),
                   Pop(cfg, "max_num", DefaultMaxNum))

\* the body of batched_nms once class_agnostic has been settled
BatchedNmsMode(b, s, ids, cfg, mode) ==
    Branch(b, s, ids, cfg, boxes_for_nms(b, ids, mode))

batched_nms(b, s, ids, cfg, ca) ==
    BatchedNmsMode(b, s, ids, cfg, ClassAgnosticOf(cfg, ca))

----------------------------------------------------------------------------
TypeOK ==
    /\ pc \in {"input", "nms", "batched_nms"}
    /\ Len(boxes) = Len(scores)

Init ==
    /\ pc = "input"
    /\ boxes = <<>>
    /\ scores = <<>>
    /\ iou_threshold = Thr(0, 1)
    /\ offset = 0
    /\ score_threshold = 0
    /\ max_num = -1
    /\ idxs = <<>>
    /\ nms_cfg = [k \in {} |-> 0]
    /\ class_agnostic = FALSE
    /\ dets = <<>>
    /\ inds = <<>>

\* the call returns r: its dets and indices
Return(r) ==
    /\ dets' = r.dets
    /\ inds' = r.inds

\* the caller assembles the detection set, one (box, score) at a time
AddDetection ==
    /\ pc = "input"
    /\ Len(boxes) < MaxN
    /\ \E b \in BoxPool, s \in ScorePool :
          /\ boxes' = Append(boxes, b)
          /\ scores' = Append(scores, s)
    /\ UNCHANGED <<pc, iou_threshold, offset, score_threshold, max_num,
                   idxs, nms_cfg, class_agnostic, dets, inds>>

\* dets, inds = nms(boxes, scores, iou_threshold, offset, score_threshold, max_num)
\* (the asserts of nms hold of every input drawn here: offset in (0, 1), four
\* columns, as many scores as boxes)
CallNms ==
    /\ pc = "input"
    /\ \E thr \in IouThresholds, off \in Offsets, sthr \in ScoreThresholds,
          mx \in MaxNums :
          /\ off \in {0, 1}
          /\ Return(nms(boxes, scores, thr, off, sthr, mx))
          /\ iou_threshold' = thr
          /\ offset' = off
          /\ score_threshold' = sthr
          /\ max_num' = mx
    /\ pc' = "nms"
    /\ UNCHANGED <<boxes, scores, idxs, nms_cfg, class_agnostic>>

\* dets, keep = batched_nms(boxes, scores, idxs, nms_cfg, class_agnostic) on a
\* non-empty detection set (boxes.max() needs an element)
CallBatchedNms ==
    /\ pc = "input"
    /\ Len(boxes) >= 1
    /\ Len(boxes) <= MaxNB
    /\ \E ids \in [1..Len(boxes) -> GroupPool], cfg \in CfgPool, ca \in BOOLEAN :
          /\ Return(batched_nms(boxes, scores, ids, cfg, ca))
          /\ idxs' = ids
          /\ nms_cfg' = cfg
          /\ class_agnostic' = ca
    /\ pc' = "batched_nms"
    /\ UNCHANGED <<boxes, scores, iou_threshold, offset, score_threshold, max_num>>

Next ==
    \/ AddDetection
    \/ CallNms
    \/ CallBatchedNms

Spec == Init /\ [][Next]_vars

----------------------------------------------------------------------------
(* Reference notions the properties are stated with *)

N == Len(boxes)

NoDuplicates(s) == \A j, k \in 1..Len(s) : j # k => s[j] # s[k]

IsLargePath == N >= Pop(nms_cfg, "split_thr", DefaultSplitThr)

\* IoU(a, b) > thr, width and height taken as (x2 - x1 + off)
IoUExceeds(a, b, thr, off) ==
    LET area_a == (a[3] - a[1] + off) * (a[4] - a[2] + off)
        area_b == (b[3] - b[1] + off) * (b[4] - b[2] + off)
        w      == Max2(0, Min2(a[3], b[3]) - Max2(a[1], b[1]) + off)
        h      == Max2(0, Min2(a[4], b[4]) - Max2(a[2], b[2]) + off)
        union  == area_a + area_b - w * h
    IN  union > 0 /\ w * h * thr.den > thr.num * union

\* greedy suppression: visit by descending score, keep a box iff its IoU with
\* every box kept so far does not exceed thr; kept indices in visiting order
RECURSIVE GreedyVisit(_, _, _, _, _, _)
GreedyVisit(b, order, k, kept, thr, off) ==
    IF k > Len(order) THEN kept
    ELSE LET i  == order[k]
             ok == \A j \in Range(kept) : ~IoUExceeds(At(b, i), At(b, j), thr, off)
         IN  GreedyVisit(b, order, k + 1, IF ok THEN Append(kept, i) ELSE kept, thr, off)

Greedy(b, s, thr, off) == GreedyVisit(b, ArgsortDesc(s), 1, <<>>, thr, off)

\* the indices of the boxes a score threshold lets through (all when it is 0)
Passing(s, sthr) == { i \in 0..(Len(s) - 1) : sthr > 0 => At(s, i) > sthr }

\* restriction of an index sequence to a set, order kept
RECURSIVE Restrict(_, _)
Restrict(s, S) ==
    IF s = <<>> THEN <<>>
    ELSE IF Head(s) \in S THEN <<Head(s)>> \o Restrict(Tail(s), S)
         ELSE Restrict(Tail(s), S)

\* the rows of dets that belong to the index sequence idx
RowsOf(idx) == [k \in 1..Len(idx) |-> <<At(boxes, idx[k])[1], At(boxes, idx[k])[2],
                                        At(boxes, idx[k])[3], At(boxes, idx[k])[4],
                                        At(scores, idx[k])>>]

\* nms_cfg with one entry set, and with one entry removed
WithEntry(cfg, key, v) ==
    [k \in (DOMAIN cfg) \cup {key} |-> IF k = key THEN v ELSE cfg[k]]
WithoutEntry(cfg, key) == [k \in (DOMAIN cfg) \ {key} |-> cfg[k]]

\* the global indices kept when nms runs on the boxes of group g alone
KeptInGroup(g, thr) ==
    LET mask == Nonzero([k \in 1..N |-> idxs[k] = g])
    IN  Range(Gather(mask, nms(Gather(boxes, mask), Gather(scores, mask), thr,
                               NmsDefaultOffset, NmsDefaultScoreThreshold,
                               NmsDefaultMaxNum).inds))

----------------------------------------------------------------------------
(* C1 *)

\* C1: with score_threshold = 0 and max_num = -1, nms returns exactly the
\* greedy suppression sequence under the IoU of its arguments; no two returned
\* boxes have IoU above iou_threshold, and every box not returned has IoU above
\* iou_threshold with a returned box of score at least its own.
C1_GreedySuppression ==
    (pc = "nms" /\ score_threshold = 0 /\ max_num = -1) =>
        /\ inds = Greedy(boxes, scores, iou_threshold, offset)
        /\ \A i, j \in Range(inds) :
              i # j => ~IoUExceeds(At(boxes, i), At(boxes, j), iou_threshold, offset)
        /\ \A i \in (0..(N - 1)) \ Range(inds) :
              \E j \in Range(inds) :
                 /\ At(scores, j) >= At(scores, i)
                 /\ IoUExceeds(At(boxes, i), At(boxes, j), iou_threshold, offset)

\* the same statement with the IoU taken pixel-inclusive whatever the offset:
\* this is what the suppression primitive computes
GreedyPixelInclusive ==
    (pc = "nms" /\ score_threshold = 0 /\ max_num = -1) =>
        /\ inds = Greedy(boxes, scores, iou_threshold, 1)
        /\ \A i \in (0..(N - 1)) \ Range(inds) :
              \E j \in Range(inds) :
                 /\ At(scores, j) >= At(scores, i)
                 /\ IoUExceeds(At(boxes, i), At(boxes, j), iou_threshold, 1)

----------------------------------------------------------------------------
(* C2 *)

\* C2: with class_agnostic false, boxes of different groups have no overlap
\* once displaced by group_id * (max_coordinate + 1), and the kept set is the
\* union over the groups of nms on each group alone (stated where no max_num
\* truncation applies).
C2_NoCrossGroupSuppression ==
    (/\ pc = "batched_nms"
     /\ ~ClassAgnosticOf(nms_cfg, class_agnostic)
     /\ ~(IsLargePath /\ Pop(nms_cfg, "max_num", DefaultMaxNum) > 0)) =>
        LET bfn == boxes_for_nms(boxes, idxs, FALSE)
            thr == Pop(nms_cfg, "iou_thr", DefaultIouThr)
        IN  /\ \A i, j \in 1..N :
                  idxs[i] # idxs[j] =>
                     /\ ~IoUExceeds(bfn[i], bfn[j], Thr(0, 1), 0)
                     /\ ~IoUExceeds(bfn[i], bfn[j], Thr(0, 1), 1)
            /\ Range(inds) = UNION { KeptInGroup(g, thr) : g \in Range(idxs) }

\* the same statement for inputs with no negative coordinate
NoCrossGroupWhenNonNegative ==
    (/\ pc = "batched_nms"
     /\ ~ClassAgnosticOf(nms_cfg, class_agnostic)
     /\ ~(IsLargePath /\ Pop(nms_cfg, "max_num", DefaultMaxNum) > 0)
     /\ \A k \in 1..N : \A c \in 1..4 : boxes[k][c] >= 0) =>
        LET bfn == boxes_for_nms(boxes, idxs, FALSE)
            thr == Pop(nms_cfg, "iou_thr", DefaultIouThr)
        IN  /\ \A i, j \in 1..N :
                  idxs[i] # idxs[j] => ~IoUExceeds(bfn[i], bfn[j], Thr(0, 1), 1)
            /\ Range(inds) = UNION { KeptInGroup(g, thr) : g \in Range(idxs) }

----------------------------------------------------------------------------
(* C3 *)

\* C3: with class_agnostic true the group ids have no effect: every other
\* assignment of group ids to the same boxes, scores and config returns the
\* same dets and indices, on the small-input and on the large-input path.
C3_GroupIdsNoEffect ==
    (pc = "batched_nms" /\ ClassAgnosticOf(nms_cfg, class_agnostic)) =>
        \A ids2 \in [1..N -> GroupPool] :
            batched_nms(boxes, scores, ids2, nms_cfg, class_agnostic)
                = [dets |-> dets, inds |-> inds]

----------------------------------------------------------------------------
(* C4 *)

\* C4: every index returned by nms (with or without score filtering and
\* truncation) and by batched_nms (either path) lies in [0, N) and occurs at
\* most once.
C4_IndicesUniqueInRange ==
    (pc # "input") =>
        /\ \A k \in 1..Len(inds) : inds[k] \in 0..(N - 1)
        /\ NoDuplicates(inds)

\* nms has filtered by score, dropped box 0, and returned the two others
C4_Witness ==
    /\ pc = "nms"
    /\ score_threshold > 0
    /\ N = 3
    /\ Len(inds) = 2
    /\ 0 \notin Range(inds)

----------------------------------------------------------------------------
(* C5 *)

\* C5: when max_num > 0, nms returns at most max_num indices, the first
\* max_num of what it returns with max_num = -1 (also when it filters by
\* score); on the large-input path batched_nms returns the first max_num of
\* the merged score-descending sequence, and the rows of dets are those of the
\* returned indices.
C5_MaxNumTruncation ==
    /\ (pc = "nms" /\ max_num > 0) =>
          LET full == nms(boxes, scores, iou_threshold, offset, score_threshold,
                          NmsDefaultMaxNum)
          IN  /\ Len(inds) <= max_num
              /\ Len(inds) = Min2(max_num, Len(full.inds))
              /\ \A k \in 1..Len(inds) : inds[k] = full.inds[k]
              /\ \A i \in Range(full.inds) \ Range(inds) :
                    \A j \in Range(inds) : At(scores, j) >= At(scores, i)
              /\ dets = RowsOf(inds)
    /\ (pc = "batched_nms" /\ IsLargePath /\ Pop(nms_cfg, "max_num", DefaultMaxNum) > 0) =>
          LET mx   == Pop(nms_cfg, "max_num", DefaultMaxNum)
              full == batched_nms(boxes, scores, idxs, WithoutEntry(nms_cfg, "max_num"),
                                 class_agnostic)
          IN  /\ Len(inds) <= mx
              /\ Len(inds) = Min2(mx, Len(full.inds))
              /\ \A k \in 1..Len(inds) : inds[k] = full.inds[k]
              /\ \A i \in Range(full.inds) \ Range(inds) :
                    \A j \in Range(inds) : At(scores, j) >= At(scores, i)
              /\ dets = RowsOf(inds)

\* nms has filtered by score and cut a longer kept sequence down to max_num
C5_Witness ==
    /\ pc = "nms"
    /\ max_num > 0
    /\ score_threshold > 0
    /\ Len(inds) = max_num
    /\ Len(nms(boxes, scores, iou_threshold, offset, score_threshold,
               NmsDefaultMaxNum).inds) > max_num

----------------------------------------------------------------------------
(* C6 *)

\* C6: the offset argument of nms sets the geometry of suppression: the
\* returned indices are the greedy result under the IoU whose widths and
\* heights are (x2 - x1 + offset), among the boxes the score threshold lets
\* through, cut to max_num.
C6_OffsetGeometry ==
    (pc = "nms") =>
        LET pass == Passing(scores, score_threshold)
            ord  == Restrict(ArgsortDesc(scores), pass)
        IN  inds = Truncate(GreedyVisit(boxes, ord, 1, <<>>, iou_threshold, offset),
                            max_num)

----------------------------------------------------------------------------
(* C7 *)

\* C7 (as claimed): when nms_cfg holds class_agnostic and the explicit
\* argument differs from it, the explicit argument decides the mode.
C7_ExplicitOverrides ==
    (/\ pc = "batched_nms"
     /\ "class_agnostic" \in DOMAIN nms_cfg
     /\ nms_cfg["class_agnostic"] # class_agnostic) =>
        [dets |-> dets, inds |-> inds]
            = BatchedNmsMode(boxes, scores, idxs, nms_cfg, class_agnostic)

\* C7 (amended): the class_agnostic entry of nms_cfg decides the mode whenever
\* it is present, also against a different explicit argument; the explicit
\* argument decides only when nms_cfg has no such entry.
C7_ConfigTakesPrecedence ==
    (pc = "batched_nms") =>
        [dets |-> dets, inds |-> inds]
            = BatchedNmsMode(boxes, scores, idxs, nms_cfg,
                             IF "class_agnostic" \in DOMAIN nms_cfg
                             THEN nms_cfg["class_agnostic"] ELSE class_agnostic)

\* config and argument disagree and the two modes give different results
C7_Witness ==
    /\ pc = "batched_nms"
    /\ "class_agnostic" \in DOMAIN nms_cfg
    /\ nms_cfg["class_agnostic"] # class_agnostic
    /\ \A k \in 1..N : \A c \in 1..4 : boxes[k][c] >= 0
    /\ BatchedNmsMode(boxes, scores, idxs, nms_cfg, TRUE).inds
          # BatchedNmsMode(boxes, scores, idxs, nms_cfg, FALSE).inds

----------------------------------------------------------------------------
(* C9 *)

\* C9: for the same boxes, scores, group ids and config, the small-input path
\* (split_thr > N) and the large-input path (split_thr <= N) return the same
\* set of kept indices.
C9_PathsSameKeptSet ==
    (pc = "batched_nms") =>
        /\ Range(inds) = Range(batched_nms(boxes, scores, idxs,
                                          WithEntry(nms_cfg, "split_thr", N + 1),
                                          class_agnostic).inds)
        /\ Range(inds) = Range(batched_nms(boxes, scores, idxs,
                                          WithEntry(nms_cfg, "split_thr", N),
                                          class_agnostic).inds)

----------------------------------------------------------------------------
(* C10 *)

DescendingScores(idx) ==
    \A j, k \in 1..Len(idx) : j < k => At(scores, idx[j]) >= At(scores, idx[k])

\* C10 (as claimed): with iou_threshold = 1 and max_num = -1, nms returns, for
\* every score_threshold including 0, exactly the boxes whose score exceeds
\* score_threshold, by descending score.
C10_AllAboveThreshold ==
    (pc = "nms" /\ iou_threshold = Thr(1, 1) /\ max_num = -1) =>
        /\ Range(inds) = { i \in 0..(N - 1) : At(scores, i) > score_threshold }
        /\ NoDuplicates(inds)
        /\ DescendingScores(inds)

\* C10 (amended): with iou_threshold = 1 and max_num = -1, nms returns by
\* descending score exactly the boxes whose score exceeds score_threshold when
\* score_threshold > 0, and every box, whatever its score, when
\* score_threshold is 0.
C10_AllPassingKept ==
    (pc = "nms" /\ iou_threshold = Thr(1, 1) /\ max_num = -1) =>
        /\ Range(inds) = IF score_threshold > 0
                         THEN { i \in 0..(N - 1) : At(scores, i) > score_threshold }
                         ELSE 0..(N - 1)
        /\ NoDuplicates(inds)
        /\ DescendingScores(inds)

\* a filtering call at iou_threshold = 1 that dropped a box at the threshold
\* and kept two copies of the same box
C10_Witness ==
    /\ pc = "nms"
    /\ iou_threshold = Thr(1, 1)
    /\ max_num = -1
    /\ score_threshold > 0
    /\ \E i \in 0..(N - 1) : At(scores, i) = score_threshold /\ i \notin Range(inds)
    /\ \E i, j \in Range(inds) : i # j /\ At(boxes, i) = At(boxes, j)
====
